---- MODULE Spec2Model ----
(***************************************************************************)
(* A model of the recommendation controller of frappe                      *)
(* (source/ffos/recommender/controller.py, filters.py).                    *)
(*                                                                         *)
(* Part I   models the factor-matrix provider of SimpleController and the  *)
(*          caching decorators around it, with concurrent requests.        *)
(* Part II  models the filter / sort / reranker pipeline of                *)
(*          InterfaceController.get_recommendation on concrete data.       *)
(*                                                                         *)
(* A factor matrix is represented by the number of the training run        *)
(* (generation) that produced it; 0 stands for Python's None.              *)
(***************************************************************************)
EXTENDS Integers, Sequences, FiniteSets, TLC

\* ------------------------------------------------------------------ bounds
NumReqs == 2      \* concurrent get_recommendation requests
NumUsers == 2     \* users known to the system
MaxGen == 2       \* generations an external (scheduled) training may reach
MaxDepth == 2     \* recursion depth at which the interpreter gives up
SmallApps == 3    \* catalogue size when every score vector is enumerated
ManyApps == 10    \* catalogue size when the rerankers get a ranked list
MaxInstalled == 2 \* apps a user has installed, at most

\* ------------------------------------------------------ program constants
DefaultN == 10        \* get_recommendation(self, user, n=10)
DefaultNumRec == 4    \* CategoryReRanker.__init__(self, n=4)

Reqs == 1..NumReqs
Users == 1..NumUsers
None == 0

VARIABLES
    rows,         \* TensorModel table: sequence of [dim, gen], id = position
    matrixCache,  \* CacheMatrix store: method name -> generation or None
    sigCache,     \* CacheUser store of get_app_significance_list, per user
    recCache,     \* CacheUser store of get_recommendation, per user
    pc,           \* per request: position in get_recommendation
    ruser,        \* per request: the user argument
    kind,         \* per request: matrix getter being executed (dim 0 / 1)
    depth,        \* per request: recursion depth inside the getter
    pending,      \* per request: decorator frames that still have to cache.set
    val,          \* per request: value travelling up the getter's frames
    uMat, aMat,   \* per request: matrices handed to the scorer
    scores,       \* per request: score vector (the generations it came from)
    returned,     \* per request: returned recommendation (same abstraction)
    served,       \* per request: which cache served the scores, if any
    startGen,     \* per request: newest persisted generation at call time
    trainCalls,   \* per request: train() calls in the current getter call
    absences,     \* per request: empty lookups in the current getter call
    demandTrains, \* train() runs started by requests that persisted a model
    \* ---- Part II: one get_recommendation call on concrete data
    numApps,      \* number of apps in the catalogue (keys 1..numApps)
    installed,    \* user.installed_apps: keys of the apps the user installed
    rawScores,    \* what get_app_significance_list returned for the user
    nArg,         \* argument n of get_recommendation
    num_rec,      \* CategoryReRanker.num_rec
    filters,      \* InterfaceController._filters (class names, in order)
    rerankers,    \* InterfaceController._rerankers (class names, in order)
    ppc,          \* position in get_recommendation
    result,       \* local variable result: score vector, then ranked id list
    fsnap,        \* the copy self.filters the filter loop iterates over
    rsnap,        \* the copy self.rerankers the reranker loop iterates over
    idx,          \* position of the running loop in its copy
    stages,       \* history: the stages executed so far, in order
    prev,         \* history: result as it was before the last stage
    to_add,       \* history: to_add of the last CategoryReRanker call
    prefs,        \* history: prefs of the last CategoryReRanker call
    err,          \* exception that ended the call ("" when none)
    cache,        \* django cache: the entries the filters and rerankers keep
    \* ---- Part III: the region tools, the registry and its callers
    userRegions,  \* Region.get_user_regions(user.external_id)
    lastCall,     \* history: the last call on the registry and how it ended
    held,         \* the list object a caller got from the filters / rerankers property
    ctl,          \* the class of the controller
    resultIsNone, \* local variable result of get_recommendation is None
    warm          \* another user's recommendation was computed before this one

provVars == <<rows, matrixCache, sigCache, recCache, pc, ruser, kind, depth,
              pending, val, uMat, aMat, scores, returned, served, startGen,
              trainCalls, absences, demandTrains>>

pipeVars == <<numApps, installed, rawScores, nArg, num_rec, filters, rerankers,
              ppc, result, fsnap, rsnap, idx, stages, prev, to_add, prefs, err,
              cache>>

envVars == <<userRegions, ctl, resultIsNone, warm>>

toolVars == <<envVars, lastCall, held>>

vars == <<provVars, pipeVars, toolVars>>

NoScores == [u |-> None, a |-> None]
MethodName(d) == IF d = 0 THEN "get_user_matrix" ELSE "get_apps_matrix"

\* ------------------------------------------------- TensorModel (store)
\* TensorModel.objects.filter(dim=d).order_by('-id'): ids of dim d, newest first
RowsOfDim(tbl, d) == { i \in 1..Len(tbl) : tbl[i].dim = d }

\* ...[0].numpy_matrix ; None stands for the IndexError of an empty result
LatestMatrix(tbl, d) ==
    IF RowsOfDim(tbl, d) = {} THEN None
    ELSE LET top == CHOOSE i \in RowsOfDim(tbl, d) :
                        \A j \in RowsOfDim(tbl, d) : j <= i
         IN tbl[top].gen

NewestGen(tbl) ==
    IF Len(tbl) = 0 THEN 0
    ELSE LET S == { tbl[i].gen : i \in 1..Len(tbl) }
         IN CHOOSE g \in S : \A h \in S : h <= g

\* TensorModel.train(): one run persists both matrices of a fresh generation
TrainPersist(tbl) ==
    LET g == NewestGen(tbl) + 1
    IN tbl \o << [dim |-> 0, gen |-> g], [dim |-> 1, gen |-> g] >>

\* the matrix cache is invalidated whenever a generation is trained
InvalidateMatrixCache(c) == [ k \in DOMAIN c |-> None ]

\* ------------------------------------------------------------ Part I: actions
ProvInit ==
    /\ rows \in { << >>, TrainPersist(<< >>) }
    /\ matrixCache = [ k \in {MethodName(0), MethodName(1)} |-> None ]
    /\ sigCache = [ u \in Users |-> NoScores ]
    /\ recCache = [ u \in Users |-> NoScores ]
    /\ pc = [ r \in Reqs |-> "idle" ]
    /\ ruser = [ r \in Reqs |-> 1 ]
    /\ kind = [ r \in Reqs |-> 0 ]
    /\ depth = [ r \in Reqs |-> 0 ]
    /\ pending = [ r \in Reqs |-> 0 ]
    /\ val = [ r \in Reqs |-> None ]
    /\ uMat = [ r \in Reqs |-> None ]
    /\ aMat = [ r \in Reqs |-> None ]
    /\ scores = [ r \in Reqs |-> NoScores ]
    /\ returned = [ r \in Reqs |-> NoScores ]
    /\ served = [ r \in Reqs |-> "none" ]
    /\ startGen = [ r \in Reqs |-> 0 ]
    /\ trainCalls = [ r \in Reqs |-> 0 ]
    /\ absences = [ r \in Reqs |-> 0 ]
    /\ demandTrains = 0

\* get_recommendation(user): the CacheUser wrapper looks the user up first;
\* the call carries no matrices, so a stored entry is returned as it is.
CallRecommendation(r, u) ==
    /\ pc[r] = "idle"
    /\ ruser' = [ruser EXCEPT ![r] = u]
    /\ startGen' = [startGen EXCEPT ![r] = NewestGen(rows)]
    /\ IF recCache[u] # NoScores
       THEN /\ returned' = [returned EXCEPT ![r] = recCache[u]]
            /\ served' = [served EXCEPT ![r] = "get_recommendation"]
            /\ pc' = [pc EXCEPT ![r] = "done"]
       ELSE /\ pc' = [pc EXCEPT ![r] = "m_cache"]
            /\ UNCHANGED <<returned, served>>
    /\ UNCHANGED <<rows, matrixCache, sigCache, recCache, kind, depth, pending,
                   val, uMat, aMat, scores, trainCalls, absences, demandTrains, pipeVars, toolVars>>

\* CacheMatrix wrapper of get_user_matrix / get_apps_matrix: cache.get
MatrixCacheGet(r) ==
    /\ pc[r] = "m_cache"
    /\ IF matrixCache[MethodName(kind[r])] # None
       THEN /\ val' = [val EXCEPT ![r] = matrixCache[MethodName(kind[r])]]
            /\ pending' = [pending EXCEPT ![r] = depth[r]]
            /\ pc' = [pc EXCEPT ![r] = "m_set"]
       ELSE /\ pc' = [pc EXCEPT ![r] = "m_lookup"]
            /\ UNCHANGED <<val, pending>>
    /\ UNCHANGED <<rows, matrixCache, sigCache, recCache, ruser, kind, depth,
                   uMat, aMat, scores, returned, served, startGen, trainCalls,
                   absences, demandTrains, pipeVars, toolVars>>

\* body of the getter: try: return TensorModel...[0].numpy_matrix
MatrixLookup(r) ==
    /\ pc[r] = "m_lookup"
    /\ IF LatestMatrix(rows, kind[r]) # None
       THEN /\ val' = [val EXCEPT ![r] = LatestMatrix(rows, kind[r])]
            /\ pending' = [pending EXCEPT ![r] = depth[r] + 1]
            /\ pc' = [pc EXCEPT ![r] = "m_set"]
            /\ UNCHANGED absences
       ELSE /\ absences' = [absences EXCEPT ![r] = @ + 1]
            /\ pc' = [pc EXCEPT ![r] = "m_train"]
            /\ UNCHANGED <<val, pending>>
    /\ UNCHANGED <<rows, matrixCache, sigCache, recCache, ruser, kind, depth,
                   uMat, aMat, scores, returned, served, startGen, trainCalls,
                   demandTrains,
                   pipeVars, toolVars>>

\* position reached after TensorModel.train(): return self.get_..._matrix()
\* re-enters the decorated getter; the interpreter bounds the recursion.
AfterTrain(r) == IF depth[r] < MaxDepth THEN "m_cache" ELSE "error"

\* except IndexError: TensorModel.train(); return self.get_..._matrix()
MatrixTrain(r, persisted) ==
    /\ pc[r] = "m_train"
    /\ trainCalls' = [trainCalls EXCEPT ![r] = @ + 1]
    /\ IF persisted
       THEN /\ rows' = TrainPersist(rows)
            /\ matrixCache' = InvalidateMatrixCache(matrixCache)
            /\ demandTrains' = demandTrains + 1
       ELSE UNCHANGED <<rows, matrixCache, demandTrains>>
    /\ pc' = [pc EXCEPT ![r] = AfterTrain(r)]
    /\ depth' = [depth EXCEPT ![r] = IF depth[r] < MaxDepth THEN @ + 1 ELSE @]
    /\ UNCHANGED <<sigCache, recCache, ruser, kind, pending, val, uMat, aMat,
                   scores, returned, served, startGen, absences,
                   pipeVars, toolVars>>

\* CacheMatrix wrapper: cache.set in every frame the value returns through,
\* then back in get_recommendation (user matrix first, then apps matrix)
MatrixCacheSet(r) ==
    /\ pc[r] = "m_set"
    /\ IF pending[r] > 0
       THEN /\ matrixCache' = [matrixCache EXCEPT ![MethodName(kind[r])] = val[r]]
            /\ pending' = [pending EXCEPT ![r] = @ - 1]
            /\ UNCHANGED <<pc, kind, depth, uMat, aMat, trainCalls, absences>>
       ELSE /\ IF kind[r] = 0
               THEN /\ uMat' = [uMat EXCEPT ![r] = val[r]]
                    /\ kind' = [kind EXCEPT ![r] = 1]
                    /\ pc' = [pc EXCEPT ![r] = "m_cache"]
                    /\ UNCHANGED aMat
               ELSE /\ aMat' = [aMat EXCEPT ![r] = val[r]]
                    /\ pc' = [pc EXCEPT ![r] = "sig_get"]
                    /\ UNCHANGED <<uMat, kind>>
            /\ depth' = [depth EXCEPT ![r] = 0]
            /\ trainCalls' = [trainCalls EXCEPT ![r] = 0]
            /\ absences' = [absences EXCEPT ![r] = 0]
            /\ UNCHANGED <<matrixCache, pending>>
    /\ UNCHANGED <<rows, sigCache, recCache, ruser, val, scores, returned,
                   served, startGen, demandTrains,
                   pipeVars, toolVars>>

\* np.squeeze(np.asarray(u_matrix.transpose()[user.pk-1] * a_matrix))
Significance(u, um, am) == [u |-> um, a |-> am]

\* CacheUser wrapper of get_app_significance_list: the entry is used only when
\* it was computed from the matrices passed in this call
SignificanceGet(r) ==
    /\ pc[r] = "sig_get"
    /\ IF sigCache[ruser[r]] = Significance(ruser[r], uMat[r], aMat[r])
       THEN /\ scores' = [scores EXCEPT ![r] = sigCache[ruser[r]]]
            /\ served' = [served EXCEPT ![r] = "get_app_significance_list"]
            /\ pc' = [pc EXCEPT ![r] = "rec_set"]
       ELSE /\ scores' = [scores EXCEPT ![r] =
                               Significance(ruser[r], uMat[r], aMat[r])]
            /\ pc' = [pc EXCEPT ![r] = "sig_set"]
            /\ UNCHANGED served
    /\ UNCHANGED <<rows, matrixCache, sigCache, recCache, ruser, kind, depth,
                   pending, val, uMat, aMat, returned, startGen, trainCalls,
                   absences, demandTrains, pipeVars, toolVars>>

SignificanceSet(r) ==
    /\ pc[r] = "sig_set"
    /\ sigCache' = [sigCache EXCEPT ![ruser[r]] = scores[r]]
    /\ pc' = [pc EXCEPT ![r] = "rec_set"]
    /\ UNCHANGED <<rows, matrixCache, recCache, ruser, kind, depth, pending,
                   val, uMat, aMat, scores, returned, served, startGen,
                   trainCalls, absences, demandTrains, pipeVars, toolVars>>

\* rest of get_recommendation (filters, sort, rerankers, truncation: Part II),
\* then the CacheUser wrapper stores the returned list for the user
RecommendationSet(r) ==
    /\ pc[r] = "rec_set"
    /\ returned' = [returned EXCEPT ![r] = scores[r]]
    /\ recCache' = [recCache EXCEPT ![ruser[r]] = scores[r]]
    /\ pc' = [pc EXCEPT ![r] = "done"]
    /\ UNCHANGED <<rows, matrixCache, sigCache, ruser, kind, depth, pending,
                   val, uMat, aMat, scores, served, startGen, trainCalls,
                   absences, demandTrains, pipeVars, toolVars>>

\* a training run started outside the request path (TensorModel.train())
Retrain ==
    /\ NewestGen(rows) >= 1
    /\ NewestGen(rows) < MaxGen
    /\ rows' = TrainPersist(rows)
    /\ matrixCache' = InvalidateMatrixCache(matrixCache)
    /\ UNCHANGED <<sigCache, recCache, pc, ruser, kind, depth, pending, val,
                   uMat, aMat, scores, returned, served, startGen, trainCalls,
                   absences, demandTrains, pipeVars, toolVars>>

\* ===================================================== Part II: the pipeline
\* ------------------------------------------------------------- Python lists
Range(l) == { l[i] : i \in 1..Len(l) }
Min(a, b) == IF a < b THEN a ELSE b
Max(a, b) == IF a > b THEN a ELSE b

\* a slice bound as Python resolves it: negative counts from the end
PyBound(l, i) == IF i < 0 THEN Max(Len(l) + i, 0) ELSE Min(i, Len(l))
\* l[:i]
PySliceTo(l, i) == SubSeq(l, 1, PyBound(l, i))
\* l[i:]
PySliceFrom(l, i) == SubSeq(l, PyBound(l, i) + 1, Len(l))

\* position of the first occurrence of x in l, 0 when there is none
IndexOf(l, x) ==
    IF x \in Range(l) THEN CHOOSE i \in 1..Len(l) :
                               l[i] = x /\ \A j \in 1..(i - 1) : l[j] # x
    ELSE 0

\* l.remove(x) where x occurs in l
PyRemove(l, x) ==
    SubSeq(l, 1, IndexOf(l, x) - 1) \o SubSeq(l, IndexOf(l, x) + 1, Len(l))

RECURSIVE RemoveAll(_, _)
\* for x in xs: l.remove(x)          (every x occurs in l)
RemoveAll(l, xs) ==
    IF xs = << >> THEN l ELSE RemoveAll(PyRemove(l, Head(xs)), Tail(xs))

RECURSIVE Ascending(_)
\* the keys of S as the store lists them: by primary key
Ascending(S) ==
    IF S = {} THEN << >>
    ELSE LET m == CHOOSE x \in S : \A y \in S : x <= y
         IN << m >> \o Ascending(S \ {m})

\* ------------------------------------------------------- the catalogue
Apps == 1..numApps
NegInf == -1000000                 \* float('-inf')
Cats == << "A", "B", "None" >>     \* category names; "None": app without one

\* categories__name of app a (apps cycle through five category profiles)
CategoriesOf(a) ==
    CASE a % 5 = 1 -> {"A"}
      [] a % 5 = 2 -> {"A"}
      [] a % 5 = 3 -> {"A", "B"}
      [] a % 5 = 4 -> {"B"}
      [] OTHER     -> {"None"}

\* RegionReRanker.get_user_pref: apps outside the user's region and worldwide
RegionUnavailable == { a \in Apps : a % 3 = 0 }
\* LocaleFilter.get_user_pref: apps that do not support the user's locale
LocaleUnsupported == { a \in Apps : a % 4 = 0 }

\* --------------------------------------------------------------- filters
RECURSIVE Suppress(_, _)
\* for app in apps: app_score[app.pk-1] = float('-inf')
Suppress(app_score, apps) ==
    IF apps = << >> THEN app_score
    ELSE Suppress([app_score EXCEPT ![Head(apps)] = NegInf], Tail(apps))

\* cache.get(key) of an entry that was never set, or is empty: "if not apps"
\* treats both alike, so both are the empty sequence
Absent == << >>
EmptyCache == [ucp |-> Absent, acd |-> Absent, region |-> Absent, locale |-> Absent]

\* faulty variant: the score of the app after each installed one is overwritten
RepetitionFilterOffByOne(app_score) ==
    Suppress(app_score,
             Ascending({ a + 1 : a \in installed } \cap (1..Len(app_score))))

\* RepetitionFilter.__call__
RepetitionFilter(app_score) == Suppress(app_score, Ascending(installed))

\* LocaleFilter.get_user_pref: the cached listing, or the query
LocalePref(c) ==
    IF c.locale # Absent THEN c.locale ELSE Ascending(LocaleUnsupported)
\* LocaleFilter.__call__
LocaleFilter(app_score, c) == Suppress(app_score, LocalePref(c))

FilterNames == {"RepetitionFilter", "LocaleFilter"}
\* f.__class__: an instance is named after its class, a second instance of
\* the same class carries the suffix _2
ClassOf(f) ==
    IF f = "RepetitionFilter_2" THEN "RepetitionFilter" ELSE f
\* _filter(user, result)
CallFilter(f, app_score, c) ==
    IF ClassOf(f) = "RepetitionFilter" THEN RepetitionFilter(app_score)
    ELSE LocaleFilter(app_score, c)
\* the cache after _filter(user, result)
CacheAfterFilter(f, c) ==
    IF ClassOf(f) = "LocaleFilter" THEN [c EXCEPT !.locale = LocalePref(c)] ELSE c

\* ------------------------------------------------------------------ sort
\* cmp(a, b) of Python 2
Cmp(a, b) == IF a < b THEN -1 ELSE IF a > b THEN 1 ELSE 0
\* the comparator handed to sorted: lambda x, y: cmp(y[1], x[1])
SortCmp(x, y) == Cmp(y[2], x[2])

\* faulty variant: an unstable sort: x goes before the elements it ties with
InsertSortedUnstable(l, x) ==
    LET k == Cardinality({ i \in 1..Len(l) : SortCmp(l[i], x) < 0 })
    IN SubSeq(l, 1, k) \o << x >> \o SubSeq(l, k + 1, Len(l))

\* sorted() is stable: x goes behind every element that does not sort after it
InsertSorted(l, x) ==
    LET k == Cardinality({ i \in 1..Len(l) : SortCmp(l[i], x) <= 0 })
    IN SubSeq(l, 1, k) \o << x >> \o SubSeq(l, k + 1, Len(l))

RECURSIVE SortedPairs(_, _)
\* sorted(enumerate(result.tolist()), cmp=...), pairs as <<aid, score>>
SortedPairs(app_score, k) ==
    IF k = 0 THEN << >>
    ELSE InsertSorted(SortedPairs(app_score, k - 1), << k - 1, app_score[k] >>)

\* [aid+1 for aid, _ in sorted(...)]
SortScores(app_score) ==
    LET sp == SortedPairs(app_score, Len(app_score))
    IN [ i \in 1..Len(sp) |-> sp[i][1] + 1 ]

\* ------------------------------------------------------------- rerankers
\* what a reranker call leaves behind: the exception ("" when it returned), the
\* list returned, the cache, and CategoryReRanker's locals prefs and to_add
Outcome(e, out, c, pf, ta) ==
    [err |-> e, out |-> out, cache |-> c, prefs |-> pf, to_add |-> ta]

\* RegionReRanker.get_user_pref
RegionPref(c) ==
    IF c.region # Absent THEN c.region ELSE Ascending(RegionUnavailable)

\* faulty variant: the moved apps are appended without being removed first
RegionReRankerNoRemove(app_score, c) ==
    Outcome("", app_score \o RegionPref(c), [c EXCEPT !.region = RegionPref(c)],
            << >>, << >>)

\* RegionReRanker.__call__
RegionReRanker(app_score, c) ==
    LET moved == RegionPref(c)
        c2 == [c EXCEPT !.region = moved]
    IN IF Range(moved) \subseteq Range(app_score)
       THEN Outcome("", RemoveAll(app_score, moved) \o moved, c2, << >>, << >>)
       ELSE Outcome("ValueError", app_score, c2, << >>, << >>)

\* faulty variant: the installed apps are put in front of the list
RepetitionReRankerInFront(app_score, c) ==
    LET user_apps == Ascending(installed)
    IN Outcome("", user_apps \o RemoveAll(app_score, user_apps), c, << >>, << >>)

\* RepetitionReRanker.__call__
RepetitionReRanker(app_score, c) ==
    LET user_apps == Ascending(installed)
    IN IF Range(user_apps) \subseteq Range(app_score)
       THEN Outcome("", RemoveAll(app_score, user_apps) \o user_apps, c,
                    << >>, << >>)
       ELSE Outcome("ValueError", app_score, c, << >>, << >>)

\* Counter(user.installed_apps.values_list('categories__name'))[cat]
CategoryCount(cat) ==
    Cardinality({ a \in installed : cat \in CategoriesOf(a) })

\* sorted(..., cmp=lambda x, y: cmp(y[1], x[1])) on the profile: stable,
\* descending by mass (all masses share the denominator appn)
InsertByMass(l, x) ==
    LET k == Cardinality({ i \in 1..Len(l) : Cmp(x.num, l[i].num) <= 0 })
    IN SubSeq(l, 1, k) \o << x >> \o SubSeq(l, k + 1, Len(l))

RECURSIVE ProfileItems(_)
\* the (category, mass) items of the first k categories, sorted
ProfileItems(k) ==
    IF k = 0 THEN << >>
    ELSE IF CategoryCount(Cats[k]) = 0 THEN ProfileItems(k - 1)
    ELSE InsertByMass(ProfileItems(k - 1),
                      [cat |-> Cats[k], num |-> CategoryCount(Cats[k]),
                       den |-> Cardinality(installed)])

\* CategoryReRanker.get_user_category_profile
UserCategoryProfile(c) ==
    IF c.ucp # Absent THEN c.ucp ELSE ProfileItems(Len(Cats))

\* int(mass*self.num_rec)
Slots(item, n) == (item.num * n) \div item.den

\* [cat] * k
Repeat(cat, k) == [ i \in 1..k |-> cat ]

RECURSIVE SelectPrefs(_, _, _, _, _)
\* the loop over ucp that fills prefs, from item k on
SelectPrefs(ucp, n, k, soma, acc) ==
    IF k > Len(ucp) THEN acc
    ELSE LET got == Slots(ucp[k], n)
         IN IF 2 * (soma + got) > n
            THEN acc \o Repeat(ucp[k].cat, got)
            ELSE SelectPrefs(ucp, n, k + 1, soma + got,
                             acc \o Repeat(ucp[k].cat, got))

\* rows of values_list('id', 'categories__name') for one app
RowsOfApp(a) ==
    LET mine == SelectSeq(Cats, LAMBDA cat : cat \in CategoriesOf(a))
    IN [ i \in 1..Len(mine) |-> << a, mine[i] >> ]

RECURSIVE CategoryRows(_)
\* FFOSApp.objects.filter(id__in=part).values_list('id', 'categories__name')
CategoryRows(ids) ==
    IF ids = << >> THEN << >>
    ELSE RowsOfApp(Head(ids)) \o CategoryRows(Tail(ids))

\* acd[cat] = [] if cat not in acd else acd[cat]+[appID]
AddRow(acd, row) ==
    IF row[2] \in DOMAIN acd
    THEN [acd EXCEPT ![row[2]] = Append(@, row[1])]
    ELSE acd @@ (row[2] :> << >>)

RECURSIVE BuildDict(_, _)
BuildDict(acd, rs) ==
    IF rs = << >> THEN acd ELSE BuildDict(AddRow(acd, Head(rs)), Tail(rs))

\* sorted_tlist[:int(len(sorted_tlist)*CategoryReRanker.PART)]
TopPart(sorted_tlist) == PySliceTo(sorted_tlist, (Len(sorted_tlist) * 33) \div 100)

\* CategoryReRanker.get_apps_category_dict
AppsCategoryDict(c, sorted_tlist) ==
    IF DOMAIN c.acd # {} THEN c.acd
    ELSE BuildDict(Absent, CategoryRows(Ascending(Range(TopPart(sorted_tlist)))))

RECURSIVE PickApps(_, _, _)
\* for cat in prefs: the first aid of acd[cat] that is not in to_add yet
PickApps(pf, acd, acc) ==
    IF pf = << >> THEN acc
    ELSE LET free == SelectSeq(acd[Head(pf)], LAMBDA aid : aid \notin Range(acc))
         IN PickApps(Tail(pf), acd,
                     IF free = << >> THEN acc ELSE Append(acc, Head(free)))

\* faulty variant: the picked apps are inserted at num_rec, not at num_rec - len(to_add)
SpliceAtNumRec(rest, picked, n) ==
    PySliceTo(rest, n) \o picked \o PySliceFrom(rest, n)

\* app_score[:i]+to_add+app_score[i:] with i = self.num_rec - len(to_add)
Splice(rest, picked, n) ==
    PySliceTo(rest, n - Len(picked)) \o picked \o PySliceFrom(rest, n - Len(picked))

\* CategoryReRanker.__call__
CategoryReRanker(app_score, c, n) ==
    LET ucp == UserCategoryProfile(c)
        pf == SelectPrefs(ucp, n, 1, 0, << >>)
        acd == AppsCategoryDict(c, app_score)
        c2 == [c EXCEPT !.ucp = ucp, !.acd = acd]
    IN IF \E i \in 1..Len(pf) : pf[i] \notin DOMAIN acd
       THEN Outcome("KeyError", app_score, c2, pf, << >>)
       ELSE LET picked == PickApps(pf, acd, << >>)
            IN IF ~(Range(picked) \subseteq Range(app_score))
               THEN Outcome("ValueError", app_score, c2, pf, picked)
               ELSE LET out == Splice(RemoveAll(app_score, picked), picked, n)
                    IN IF Len(out) # Len(app_score)
                       THEN Outcome("AssertionError", app_score, c2, pf, picked)
                       ELSE Outcome("", out, c2, pf, picked)

RerankerNames == {"RegionReRanker", "CategoryReRanker", "RepetitionReRanker"}
\* _reranker(user, result)
CallReranker(f, app_score, c, n) ==
    CASE ClassOf(f) = "RegionReRanker" -> RegionReRanker(app_score, c)
      [] ClassOf(f) = "CategoryReRanker" -> CategoryReRanker(app_score, c, n)
      [] OTHER -> RepetitionReRanker(app_score, c)

\* ----------------------------------------------------------- Part II: actions
\* registerFilter(f): f.controller = self; self._filters.append(f)
RegisterFilter(f) ==
    /\ ppc = "idle"
    /\ f \notin Range(filters)
    /\ filters' = Append(filters, f)
    /\ UNCHANGED <<numApps, installed, rawScores, nArg, num_rec, rerankers, ppc,
                   result, fsnap, rsnap, idx, stages, prev, to_add, prefs, err,
                   cache, provVars, toolVars>>

\* registerReranker(f): f.controller = self; self._rerankers.append(f)
RegisterReranker(f) ==
    /\ ppc = "idle"
    /\ f \notin Range(rerankers)
    /\ rerankers' = Append(rerankers, f)
    /\ UNCHANGED <<numApps, installed, rawScores, nArg, num_rec, filters, ppc,
                   result, fsnap, rsnap, idx, stages, prev, to_add, prefs, err,
                   cache, provVars, toolVars>>

\* the filters property: return self._filters[:]
FiltersCopy == filters
\* faulty variant: the rerankers are handed out newest first
RerankersCopyReversed ==
    [ i \in 1..Len(rerankers) |-> rerankers[Len(rerankers) + 1 - i] ]

\* the rerankers property: return self._rerankers[:]
RerankersCopy == rerankers

\* get_recommendation(user, n): result = self.get_app_significance_list(...),
\* then the filter loop starts on the copy that self.filters returns
GetRecommendation(n) ==
    /\ ppc = "idle"
    /\ nArg' = n
    /\ result' = rawScores
    /\ prev' = rawScores
    /\ fsnap' = FiltersCopy
    /\ idx' = 1
    /\ stages' = << >>
    /\ ppc' = "filters"
    /\ UNCHANGED <<numApps, installed, rawScores, num_rec, filters, rerankers,
                   rsnap, to_add, prefs, err, cache, provVars, toolVars>>

\* for _filter in self.filters: result = _filter(user, result)
ApplyFilter ==
    /\ ppc = "filters"
    /\ idx <= Len(fsnap)
    /\ prev' = result
    /\ result' = CallFilter(fsnap[idx], result, cache)
    /\ cache' = CacheAfterFilter(fsnap[idx], cache)
    /\ stages' = Append(stages, fsnap[idx])
    /\ idx' = idx + 1
    /\ UNCHANGED <<numApps, installed, rawScores, nArg, num_rec, filters,
                   rerankers, ppc, fsnap, rsnap, to_add, prefs, err, provVars, toolVars>>

\* result = [aid+1 for aid, _ in sorted(...)], then the reranker loop starts
\* on the copy that self.rerankers returns
SortResult ==
    /\ ppc = "filters"
    /\ idx > Len(fsnap)
    /\ prev' = result
    /\ result' = SortScores(result)
    /\ stages' = Append(stages, "sort")
    /\ rsnap' = RerankersCopy
    /\ idx' = 1
    /\ ppc' = "rerankers"
    /\ UNCHANGED <<numApps, installed, rawScores, nArg, num_rec, filters,
                   rerankers, fsnap, to_add, prefs, err, cache, provVars, toolVars>>

\* for _reranker in self.rerankers: result = _reranker(user, result)
ApplyReranker ==
    /\ ppc = "rerankers"
    /\ idx <= Len(rsnap)
    /\ LET o == CallReranker(rsnap[idx], result, cache, num_rec)
       IN /\ prev' = result
          /\ cache' = o.cache
          /\ prefs' = IF rsnap[idx] = "CategoryReRanker" THEN o.prefs ELSE prefs
          /\ to_add' = IF rsnap[idx] = "CategoryReRanker" THEN o.to_add ELSE to_add
          /\ stages' = Append(stages, rsnap[idx])
          /\ err' = o.err
          /\ IF o.err = ""
             THEN /\ result' = o.out
                  /\ idx' = idx + 1
                  /\ UNCHANGED ppc
             ELSE /\ ppc' = "error"
                  /\ UNCHANGED <<result, idx>>
    /\ UNCHANGED <<numApps, installed, rawScores, nArg, num_rec, filters,
                   rerankers, fsnap, rsnap, provVars, toolVars>>

\* return result[:n]
Truncate ==
    /\ ppc = "rerankers"
    /\ idx > Len(rsnap)
    /\ prev' = result
    /\ result' = PySliceTo(result, nArg)
    /\ stages' = Append(stages, "truncate")
    /\ ppc' = "done"
    /\ UNCHANGED <<numApps, installed, rawScores, nArg, num_rec, filters,
                   rerankers, fsnap, rsnap, idx, to_add, prefs, err, cache,
                   provVars, toolVars>>

\* ------------------------------------------------------ Part II: the inputs
Scores == {1, 5, 9}              \* significance scores, in tenths
InstalledSets(keys) == { s \in SUBSET keys : Cardinality(s) <= MaxInstalled }
NumRecs(n) == (1..DefaultNumRec) \cup {n + 1}

\* score vectors over n apps that sort into rotated, reversed, strided and,
\* where the stride divides n, tied rankings
ScoreFamily(n) ==
    { [ a \in 1..n |-> (d * a + r) % n ] : d \in {1, 2, 3, n - 1}, r \in 0..(n - 1) }

\* every order in which the three rerankers can be registered
RerankerOrders ==
    { << a, b, c >> : a \in RerankerNames, b \in RerankerNames,
                      c \in RerankerNames } \cap
    { o \in [1..3 -> RerankerNames] : Range(o) = RerankerNames }

\* the pipeline is not running (Part I)
PipeIdle ==
    /\ numApps = 0 /\ installed = {} /\ rawScores = << >>
    /\ nArg = DefaultN /\ num_rec = DefaultNumRec
    /\ filters = << >> /\ rerankers = << >>
    /\ ppc = "off" /\ result = << >> /\ fsnap = << >> /\ rsnap = << >>
    /\ idx = 1 /\ stages = << >> /\ prev = << >> /\ to_add = << >>
    /\ prefs = << >> /\ err = "" /\ cache = EmptyCache

\* a list object: which object it is ("new": one no one else refers to) and
\* what it holds
NoList == [obj |-> "none", items |-> << >>]
NoCall == [op |-> "", args |-> << >>, before |-> << >>, err |-> ""]

\* the region tools and the registry's callers are not in use
ToolIdle ==
    /\ userRegions = {}
    /\ ctl = "SimpleController"
    /\ resultIsNone = FALSE
    /\ warm = FALSE
    /\ lastCall = NoCall
    /\ held = NoList

\* no request is running (Part II)
ProvIdle ==
    /\ ProvInit
    /\ rows = << >>
    /\ ToolIdle

\* a freshly constructed controller, a small catalogue and any score vector
PipelineInit ==
    /\ ProvIdle
    /\ numApps = SmallApps
    /\ installed \in InstalledSets(1..SmallApps)
    /\ rawScores \in [1..SmallApps -> Scores]
    /\ nArg = DefaultN /\ num_rec = DefaultNumRec
    /\ filters = << >> /\ rerankers = << >>
    /\ ppc = "idle" /\ result = << >> /\ fsnap = << >> /\ rsnap = << >>
    /\ idx = 1 /\ stages = << >> /\ prev = << >> /\ to_add = << >>
    /\ prefs = << >> /\ err = "" /\ cache = EmptyCache

PipelineNext ==
    \/ \E f \in FilterNames : RegisterFilter(f)
    \/ \E f \in RerankerNames : RegisterReranker(f)
    \/ \E n \in {2, DefaultN} : GetRecommendation(n)
    \/ ApplyFilter
    \/ SortResult
    \/ ApplyReranker
    \/ Truncate

SpecPipeline == PipelineInit /\ [][PipelineNext]_vars

\* a controller with the three rerankers registered in some order and no
\* filter, a large catalogue, and a user whose installed apps lie in its
\* first half
RerankInit ==
    /\ ProvIdle
    /\ numApps = ManyApps
    /\ installed \in InstalledSets(1..(ManyApps \div 2))
    /\ rawScores \in ScoreFamily(ManyApps)
    /\ nArg = DefaultN
    /\ num_rec \in NumRecs(ManyApps)
    /\ filters = << >>
    /\ rerankers \in RerankerOrders
    /\ ppc = "idle" /\ result = << >> /\ fsnap = << >> /\ rsnap = << >>
    /\ idx = 1 /\ stages = << >> /\ prev = << >> /\ to_add = << >>
    /\ prefs = << >> /\ err = "" /\ cache = EmptyCache

RerankNext ==
    \/ GetRecommendation(DefaultN)
    \/ SortResult
    \/ ApplyReranker
    \/ Truncate

SpecRerank == RerankInit /\ [][RerankNext]_vars

\* ================================================= Part III: region tools
ScoreScale == 10                   \* the model keeps scores in tenths
Penalty == 1000                    \* the factor in (np.sum(...)-1)*1000
Regions == {"pt", "br", "us"}

\* Region.get_item_list_by_region(module.pk, region)[a-1]: 1 when app a is
\* available in the region, 0 otherwise
ItemListByRegion(region, a) ==
    CASE region = "pt" -> IF a % 3 # 0 THEN 1 ELSE 0
      [] region = "br" -> IF a % 3 = 2 THEN 1 ELSE 0
      [] OTHER         -> IF a % 4 = 0 THEN 1 ELSE 0

RECURSIVE NpSum(_, _)
\* np.sum(user_regions, axis=0)[a-1]
NpSum(regions, a) ==
    IF regions = {} THEN 0
    ELSE LET r == CHOOSE x \in regions : TRUE
         IN ItemListByRegion(r, a) + NpSum(regions \ {r}, a)

\* x + d in floating point: negative infinity stays negative infinity
FloatAdd(x, d) == IF x = NegInf THEN NegInf ELSE x + d

\* SimpleRegionFilter.__call__
SimpleRegionFilter(recommendation, regions) ==
    IF Cardinality(regions) # 0
    THEN [ a \in DOMAIN recommendation |->
             FloatAdd(recommendation[a],
                      (NpSum(regions, a) - 1) * Penalty * ScoreScale) ]
    ELSE recommendation

MaxRegionCalls == 2

\* a caller holds the user's score vector
RegionStart ==
    /\ ppc = "idle"
    /\ result' = rawScores
    /\ prev' = rawScores
    /\ stages' = << >>
    /\ ppc' = "region"
    /\ UNCHANGED <<numApps, installed, rawScores, nArg, num_rec, filters,
                   rerankers, fsnap, rsnap, idx, to_add, prefs, err, cache,
                   provVars, toolVars>>

\* recommendation = SimpleRegionFilter()(module, user, recommendation)
RegionCall ==
    /\ ppc = "region"
    /\ Len(stages) < MaxRegionCalls
    /\ prev' = result
    /\ result' = SimpleRegionFilter(result, userRegions)
    /\ stages' = Append(stages, "SimpleRegionFilter")
    /\ UNCHANGED <<numApps, installed, rawScores, nArg, num_rec, filters,
                   rerankers, ppc, fsnap, rsnap, idx, to_add, prefs, err, cache,
                   provVars, toolVars>>

\* the caller ranks the vector it holds
RegionSort ==
    /\ ppc = "region"
    /\ prev' = result
    /\ result' = SortScores(result)
    /\ stages' = Append(stages, "sort")
    /\ ppc' = "ranked"
    /\ UNCHANGED <<numApps, installed, rawScores, nArg, num_rec, filters,
                   rerankers, fsnap, rsnap, idx, to_add, prefs, err, cache,
                   provVars, toolVars>>

\* a small catalogue, any score vector, a user with any set of regions
RegionInit ==
    /\ ProvInit
    /\ rows = << >>
    /\ numApps = SmallApps
    /\ installed = {}
    /\ rawScores \in [1..SmallApps -> Scores]
    /\ userRegions \in SUBSET Regions
    /\ ctl = "SimpleController"
    /\ resultIsNone = FALSE
    /\ warm = FALSE
    /\ lastCall = NoCall
    /\ held = NoList
    /\ nArg = DefaultN /\ num_rec = DefaultNumRec
    /\ filters = << >> /\ rerankers = << >>
    /\ ppc = "idle" /\ result = << >> /\ fsnap = << >> /\ rsnap = << >>
    /\ idx = 1 /\ stages = << >> /\ prev = << >> /\ to_add = << >>
    /\ prefs = << >> /\ err = "" /\ cache = EmptyCache

RegionNext ==
    \/ RegionStart
    \/ RegionCall
    \/ RegionSort

SpecRegion == RegionInit /\ [][RegionNext]_vars

\* ================================================ Part III: the registry
MaxRegistered == 2
MaxArgs == 2
FilterObjects == {"RepetitionFilter", "RepetitionFilter_2", "LocaleFilter"}
RerankerObjects == {"RegionReRanker", "RepetitionReRanker"}
\* the argument tuples *filters / *rerankers of one call
ArgsOver(objects) ==
    UNION { [1..k -> objects] : k \in 1..MaxArgs }

\* the attributes an instance of Filter or of a subclass has
Attributes(o) ==
    {"__class__", "controller"} \cup
        (IF ClassOf(o) = "CategoryReRanker" THEN {"num_rec"} ELSE {})

\* Filter.cmp_params
CmpParams(self, other) == TRUE

\* Filter.__eq__: inside class Filter the name other.__class is the attribute
\* _Filter__class
FilterEq(self, other) ==
    IF "_Filter__class" \notin Attributes(other) THEN "AttributeError"
    ELSE IF CmpParams(self, other) THEN "True" ELSE "False"

RECURSIVE PyContains(_, _)
\* x in items: each item is compared by identity first, then with ==
PyContains(items, x) ==
    IF items = << >> THEN "False"
    ELSE IF Head(items) = x THEN "True"
    ELSE LET e == FilterEq(Head(items), x)
         IN IF e = "False" THEN PyContains(Tail(items), x) ELSE e

RECURSIVE Unregistered(_, _, _)
\* [x for x in registered if x not in items]: the list built, or the exception
Unregistered(registered, items, acc) ==
    IF registered = << >> THEN [err |-> "", out |-> acc]
    ELSE LET e == PyContains(items, Head(registered))
         IN CASE e = "True" -> Unregistered(Tail(registered), items, acc)
              [] e = "False" ->
                    Unregistered(Tail(registered), items,
                                 Append(acc, Head(registered)))
              [] OTHER -> [err |-> e, out |-> << >>]

\* registerFilter(*filters)
RegisterFilters(args) ==
    /\ ppc = "idle"
    /\ Len(filters) + Len(args) <= MaxRegistered
    /\ filters' = filters \o args
    /\ lastCall' = [op |-> "registerFilter", args |-> args, before |-> filters,
                    err |-> ""]
    /\ UNCHANGED <<numApps, installed, rawScores, nArg, num_rec, rerankers, ppc,
                   result, fsnap, rsnap, idx, stages, prev, to_add, prefs, err,
                   cache, provVars, envVars, held>>

\* registerReranker(*rerankers)
RegisterRerankers(args) ==
    /\ ppc = "idle"
    /\ Len(rerankers) + Len(args) <= MaxRegistered
    /\ rerankers' = rerankers \o args
    /\ lastCall' = [op |-> "registerReranker", args |-> args,
                    before |-> rerankers, err |-> ""]
    /\ UNCHANGED <<numApps, installed, rawScores, nArg, num_rec, filters, ppc,
                   result, fsnap, rsnap, idx, stages, prev, to_add, prefs, err,
                   cache, provVars, envVars, held>>

\* unregisterFilter(*filters)
UnregisterFilter(args) ==
    /\ ppc = "idle"
    /\ LET o == Unregistered(filters, args, << >>)
       IN /\ filters' = IF o.err = "" THEN o.out ELSE filters
          /\ lastCall' = [op |-> "unregisterFilter", args |-> args,
                          before |-> filters, err |-> o.err]
    /\ UNCHANGED <<numApps, installed, rawScores, nArg, num_rec, rerankers, ppc,
                   result, fsnap, rsnap, idx, stages, prev, to_add, prefs, err,
                   cache, provVars, envVars, held>>

\* unregisterReranker(*rerankers)
UnregisterReranker(args) ==
    /\ ppc = "idle"
    /\ LET o == Unregistered(rerankers, args, << >>)
       IN /\ rerankers' = IF o.err = "" THEN o.out ELSE rerankers
          /\ lastCall' = [op |-> "unregisterReranker", args |-> args,
                          before |-> rerankers, err |-> o.err]
    /\ UNCHANGED <<numApps, installed, rawScores, nArg, num_rec, filters, ppc,
                   result, fsnap, rsnap, idx, stages, prev, to_add, prefs, err,
                   cache, provVars, envVars, held>>

\* faulty variant: the property hands out the list self._filters itself
FiltersPropertyAliased == [obj |-> "_filters", items |-> filters]

\* the filters property as a list object: self._filters[:] is a new list
FiltersProperty == [obj |-> "new", items |-> FiltersCopy]

\* the rerankers property as a list object: self._rerankers[:] is a new list
RerankersProperty == [obj |-> "new", items |-> RerankersCopy]

\* held = controller.filters                 (a caller reads a property once)
ReadFilters ==
    /\ ppc = "idle"
    /\ held.obj = "none"
    /\ held' = FiltersProperty
    /\ lastCall' = [op |-> "filters", args |-> << >>, before |-> filters,
                    err |-> ""]
    /\ UNCHANGED <<pipeVars, provVars, envVars>>

\* held = controller.rerankers
ReadRerankers ==
    /\ ppc = "idle"
    /\ held.obj = "none"
    /\ held' = RerankersProperty
    /\ lastCall' = [op |-> "rerankers", args |-> << >>, before |-> rerankers,
                    err |-> ""]
    /\ UNCHANGED <<pipeVars, provVars, envVars>>

\* held.append(x), right after the read: whoever refers to the same list
\* object sees the new item
HeldAppend(x) ==
    /\ ppc = "idle"
    /\ lastCall.op \in {"filters", "rerankers"}
    /\ held' = [held EXCEPT !.items = Append(@, x)]
    /\ filters' = IF held.obj = "_filters" THEN Append(filters, x) ELSE filters
    /\ rerankers' = IF held.obj = "_rerankers" THEN Append(rerankers, x)
                    ELSE rerankers
    /\ lastCall' = [op |-> "append", args |-> << x >>,
                    before |-> << filters, rerankers >>, err |-> ""]
    /\ UNCHANGED <<numApps, installed, rawScores, nArg, num_rec, ppc, result,
                   fsnap, rsnap, idx, stages, prev, to_add, prefs, err, cache,
                   provVars, envVars>>

\* del held[:], right after the read: whoever refers to the same list object sees it emptied
HeldClear ==
    /\ ppc = "idle"
    /\ lastCall.op \in {"filters", "rerankers"}
    /\ held.items # << >>
    /\ held' = [held EXCEPT !.items = << >>]
    /\ filters' = IF held.obj = "_filters" THEN << >> ELSE filters
    /\ rerankers' = IF held.obj = "_rerankers" THEN << >> ELSE rerankers
    /\ lastCall' = [op |-> "clear", args |-> << >>,
                    before |-> << filters, rerankers >>, err |-> ""]
    /\ UNCHANGED <<numApps, installed, rawScores, nArg, num_rec, ppc, result,
                   fsnap, rsnap, idx, stages, prev, to_add, prefs, err, cache,
                   provVars, envVars>>

\* a freshly constructed controller
RegistryInit ==
    /\ ProvIdle
    /\ numApps = SmallApps
    /\ installed = {1}
    /\ rawScores = [a \in 1..SmallApps |-> a]
    /\ nArg = DefaultN /\ num_rec = DefaultNumRec
    /\ filters = << >> /\ rerankers = << >>
    /\ ppc = "idle" /\ result = << >> /\ fsnap = << >> /\ rsnap = << >>
    /\ idx = 1 /\ stages = << >> /\ prev = << >> /\ to_add = << >>
    /\ prefs = << >> /\ err = "" /\ cache = EmptyCache

\* the registry is set up; then a caller reads a property, may change the
\* list it got, and asks for a recommendation
RegistryNext ==
    \/ \E args \in ArgsOver(FilterObjects) :
           held.obj = "none" /\ RegisterFilters(args)
    \/ \E args \in ArgsOver(RerankerObjects) :
           held.obj = "none" /\ RegisterRerankers(args)
    \/ \E x \in FilterObjects : held.obj = "none" /\ UnregisterFilter(<< x >>)
    \/ \E x \in RerankerObjects :
           held.obj = "none" /\ UnregisterReranker(<< x >>)
    \/ ReadFilters
    \/ ReadRerankers
    \/ \E x \in FilterObjects \cup RerankerObjects : HeldAppend(x)
    \/ HeldClear
    \/ held.obj # "none" /\ GetRecommendation(DefaultN)
    \/ ApplyFilter
    \/ SortResult
    \/ ApplyReranker
    \/ Truncate

SpecRegistry == RegistryInit /\ [][RegistryNext]_vars

\* ============================================= Part III: abstract bases
ControllerClasses == {"InterfaceController", "NonOverriding", "SimpleController"}
BaseClasses == {"Filter", "ReRanker"}

\* what self.get_user_matrix() / self.get_apps_matrix() raise on a controller
\* of class c ("" when the class overrides them)
MatrixGetterError(c) ==
    CASE c = "InterfaceController" -> "TypeError"
      [] c = "NonOverriding" -> "NotImplementedError"
      [] OTHER -> ""

\* what _filter(user, None) raises ("" when it returns, and then it returns
\* None): the loops assign app_score[app.pk-1] once per listed app
FilterOnNone(f, c) ==
    CASE ClassOf(f) \in BaseClasses -> ""
      [] ClassOf(f) = "RepetitionFilter" ->
            IF installed # {} THEN "TypeError" ELSE ""
      [] OTHER -> IF LocalePref(c) # << >> THEN "TypeError" ELSE ""

\* what _reranker(user, None) raises ("" when it returns None): the loops
\* call app_score.remove once per listed app, then the lists are concatenated
RerankerOnNone(f, c) ==
    CASE ClassOf(f) \in BaseClasses -> ""
      [] ClassOf(f) = "RegionReRanker" ->
            IF RegionPref(c) # << >> THEN "AttributeError" ELSE "TypeError"
      [] ClassOf(f) = "RepetitionReRanker" ->
            IF installed # {} THEN "AttributeError" ELSE "TypeError"
      [] OTHER -> "TypeError"

\* the stage at idx of snap is a subclass's, and it is handed a value
OrdinaryStage(snap) ==
    /\ ~resultIsNone
    /\ idx <= Len(snap)
    /\ ClassOf(snap[idx]) \notin BaseClasses

\* get_recommendation on a controller of class ctl: the matrix getters run
\* first (controller.py:168)
AbstractCall ==
    /\ ppc = "idle"
    /\ IF MatrixGetterError(ctl) # ""
       THEN /\ ppc' = "error"
            /\ err' = MatrixGetterError(ctl)
            /\ UNCHANGED <<numApps, installed, rawScores, nArg, num_rec, filters,
                           rerankers, result, fsnap, rsnap, idx, stages, prev,
                           to_add, prefs, cache, provVars, toolVars>>
       ELSE GetRecommendation(DefaultN)

\* result = _filter(user, result) where _filter is the base Filter, or where
\* result is None already
AbstractFilter ==
    /\ ppc = "filters"
    /\ idx <= Len(fsnap)
    /\ resultIsNone \/ ClassOf(fsnap[idx]) \in BaseClasses
    /\ LET e == IF resultIsNone THEN FilterOnNone(fsnap[idx], cache) ELSE ""
       IN /\ prev' = result
          /\ stages' = Append(stages, fsnap[idx])
          /\ cache' = CacheAfterFilter(fsnap[idx], cache)
          /\ err' = e
          /\ IF e = ""
             THEN /\ resultIsNone' = TRUE
                  /\ result' = << >>
                  /\ idx' = idx + 1
                  /\ UNCHANGED ppc
             ELSE /\ ppc' = "error"
                  /\ UNCHANGED <<resultIsNone, result, idx>>
    /\ UNCHANGED <<numApps, installed, rawScores, nArg, num_rec, filters,
                   rerankers, fsnap, rsnap, to_add, prefs, provVars,
                   userRegions, ctl, warm, lastCall, held>>

\* sorted(enumerate(result.tolist()), ...) where result is None
AbstractSort ==
    /\ ppc = "filters"
    /\ idx > Len(fsnap)
    /\ resultIsNone
    /\ prev' = result
    /\ stages' = Append(stages, "sort")
    /\ err' = "AttributeError"
    /\ ppc' = "error"
    /\ UNCHANGED <<numApps, installed, rawScores, nArg, num_rec, filters,
                   rerankers, result, fsnap, rsnap, idx, to_add, prefs, cache,
                   provVars, toolVars>>

\* result = _reranker(user, result) where _reranker is the base ReRanker, or
\* where result is None already
AbstractReranker ==
    /\ ppc = "rerankers"
    /\ idx <= Len(rsnap)
    /\ resultIsNone \/ ClassOf(rsnap[idx]) \in BaseClasses
    /\ LET e == IF resultIsNone THEN RerankerOnNone(rsnap[idx], cache) ELSE ""
       IN /\ prev' = result
          /\ stages' = Append(stages, rsnap[idx])
          /\ err' = e
          /\ IF e = ""
             THEN /\ resultIsNone' = TRUE
                  /\ result' = << >>
                  /\ idx' = idx + 1
                  /\ UNCHANGED ppc
             ELSE /\ ppc' = "error"
                  /\ UNCHANGED <<resultIsNone, result, idx>>
    /\ UNCHANGED <<numApps, installed, rawScores, nArg, num_rec, filters,
                   rerankers, fsnap, rsnap, to_add, prefs, cache, provVars,
                   userRegions, ctl, warm, lastCall, held>>

\* return result[:n] where result is None
AbstractTruncate ==
    /\ ppc = "rerankers"
    /\ idx > Len(rsnap)
    /\ resultIsNone
    /\ prev' = result
    /\ stages' = Append(stages, "truncate")
    /\ err' = "TypeError"
    /\ ppc' = "error"
    /\ UNCHANGED <<numApps, installed, rawScores, nArg, num_rec, filters,
                   rerankers, result, fsnap, rsnap, idx, to_add, prefs, cache,
                   provVars, toolVars>>

\* registered sequences that may hold instances of the bases
StageLists(objects) ==
    UNION { [1..k -> objects] : k \in 0..MaxRegistered }

\* a constructed controller of any class, with subclass and base instances
\* registered
AbstractInit ==
    /\ ProvInit
    /\ rows = << >>
    /\ userRegions = {} /\ lastCall = NoCall /\ held = NoList
    /\ ctl \in ControllerClasses
    /\ resultIsNone = FALSE
    /\ warm = FALSE
    /\ numApps = SmallApps
    /\ installed \in {{}, {1}}
    /\ rawScores = [a \in 1..SmallApps |-> a]
    /\ nArg = DefaultN /\ num_rec = DefaultNumRec
    /\ filters \in StageLists({"Filter", "RepetitionFilter", "LocaleFilter"})
    /\ rerankers \in StageLists({"ReRanker", "RegionReRanker",
                                 "RepetitionReRanker"})
    /\ ppc = "idle" /\ result = << >> /\ fsnap = << >> /\ rsnap = << >>
    /\ idx = 1 /\ stages = << >> /\ prev = << >> /\ to_add = << >>
    /\ prefs = << >> /\ err = "" /\ cache = EmptyCache

AbstractNext ==
    \/ AbstractCall
    \/ AbstractFilter
    \/ AbstractSort
    \/ AbstractReranker
    \/ AbstractTruncate
    \/ OrdinaryStage(fsnap) /\ ApplyFilter
    \/ ~resultIsNone /\ SortResult
    \/ OrdinaryStage(rsnap) /\ ApplyReranker
    \/ ~resultIsNone /\ Truncate

SpecAbstract == AbstractInit /\ [][AbstractNext]_vars

\* ================================================= Part III: two users
\* the first user's call has ended; a second user calls get_recommendation on
\* the same process: the cache keys USER_..._<external_id> are the second
\* user's own and still unset, the key APP_CATEGORY_PROFILE is shared
NextUser ==
    /\ ppc \in {"done", "error"}
    /\ ~warm
    /\ warm' = TRUE
    /\ installed' \in InstalledSets(1..(ManyApps \div 2))
    /\ rawScores' \in ScoreFamily(ManyApps)
    /\ cache' = [EmptyCache EXCEPT !.acd = cache.acd]
    /\ ppc' = "idle" /\ result' = << >> /\ fsnap' = << >> /\ rsnap' = << >>
    /\ idx' = 1 /\ stages' = << >> /\ prev' = << >> /\ to_add' = << >>
    /\ prefs' = << >> /\ err' = ""
    /\ UNCHANGED <<numApps, nArg, num_rec, filters, rerankers, provVars,
                   userRegions, ctl, resultIsNone, lastCall, held>>

\* a controller with CategoryReRanker registered, a large catalogue, and a
\* first user
TwoUsersInit ==
    /\ ProvIdle
    /\ numApps = ManyApps
    /\ installed = {}
    /\ rawScores \in ScoreFamily(ManyApps)
    /\ nArg = DefaultN
    /\ num_rec = DefaultNumRec
    /\ filters = << >>
    /\ rerankers = << "CategoryReRanker" >>
    /\ ppc = "idle" /\ result = << >> /\ fsnap = << >> /\ rsnap = << >>
    /\ idx = 1 /\ stages = << >> /\ prev = << >> /\ to_add = << >>
    /\ prefs = << >> /\ err = "" /\ cache = EmptyCache

TwoUsersNext ==
    \/ GetRecommendation(DefaultN)
    \/ SortResult
    \/ ApplyReranker
    \/ Truncate
    \/ NextUser

SpecTwoUsers == TwoUsersInit /\ [][TwoUsersNext]_vars

\* ======================================= Part III: concurrent registration
\* faulty variant: the loop iterates over the registry's own list
LoopListLive(snap, registry) == registry

\* the list a running stage loop iterates over, after an item was appended to
\* the registry: the loop holds the copy the property returned
LoopList(snap, registry) == snap

\* registerFilter(f) from another thread, at any point of a running call
ConcurrentRegisterFilter(f) ==
    /\ Len(filters) < MaxRegistered
    /\ filters' = Append(filters, f)
    /\ fsnap' = IF ppc = "filters" THEN LoopList(fsnap, Append(filters, f))
                ELSE fsnap
    /\ UNCHANGED <<numApps, installed, rawScores, nArg, num_rec, rerankers, ppc,
                   result, rsnap, idx, stages, prev, to_add, prefs, err, cache,
                   provVars, toolVars>>

\* registerReranker(f) from another thread, at any point of a running call
ConcurrentRegisterReranker(f) ==
    /\ Len(rerankers) < MaxRegistered
    /\ rerankers' = Append(rerankers, f)
    /\ rsnap' = IF ppc = "rerankers" THEN LoopList(rsnap, Append(rerankers, f))
                ELSE rsnap
    /\ UNCHANGED <<numApps, installed, rawScores, nArg, num_rec, filters, ppc,
                   result, fsnap, idx, stages, prev, to_add, prefs, err, cache,
                   provVars, toolVars>>

\* unregisterFilter(x) from another thread: self._filters is bound to a new
\* list, unless the comparison raises
ConcurrentUnregisterFilter(x) ==
    /\ filters # << >>
    /\ LET o == Unregistered(filters, << x >>, << >>)
       IN filters' = IF o.err = "" THEN o.out ELSE filters
    /\ UNCHANGED <<numApps, installed, rawScores, nArg, num_rec, rerankers, ppc,
                   result, fsnap, rsnap, idx, stages, prev, to_add, prefs, err,
                   cache, provVars, toolVars>>

\* unregisterReranker(x) from another thread
ConcurrentUnregisterReranker(x) ==
    /\ rerankers # << >>
    /\ LET o == Unregistered(rerankers, << x >>, << >>)
       IN rerankers' = IF o.err = "" THEN o.out ELSE rerankers
    /\ UNCHANGED <<numApps, installed, rawScores, nArg, num_rec, filters, ppc,
                   result, fsnap, rsnap, idx, stages, prev, to_add, prefs, err,
                   cache, provVars, toolVars>>

\* a freshly constructed controller; one thread calls get_recommendation
\* while another registers and unregisters
ConcurrentInit == RegistryInit

ConcurrentNext ==
    \/ \E f \in FilterNames : ConcurrentRegisterFilter(f)
    \/ \E f \in RerankerObjects : ConcurrentRegisterReranker(f)
    \/ \E x \in FilterNames : ConcurrentUnregisterFilter(x)
    \/ \E x \in RerankerObjects : ConcurrentUnregisterReranker(x)
    \/ GetRecommendation(DefaultN)
    \/ ApplyFilter
    \/ SortResult
    \/ ApplyReranker
    \/ Truncate

SpecConcurrent == ConcurrentInit /\ [][ConcurrentNext]_vars

Init == ProvInit /\ PipeIdle /\ ToolIdle

Next ==
    \/ \E r \in Reqs, u \in Users : CallRecommendation(r, u)
    \/ \E r \in Reqs : MatrixCacheGet(r)
    \/ \E r \in Reqs : MatrixLookup(r)
    \/ \E r \in Reqs, persisted \in BOOLEAN : MatrixTrain(r, persisted)
    \/ \E r \in Reqs : MatrixCacheSet(r)
    \/ \E r \in Reqs : SignificanceGet(r)
    \/ \E r \in Reqs : SignificanceSet(r)
    \/ \E r \in Reqs : RecommendationSet(r)
    \/ Retrain

Spec == Init /\ [][Next]_vars

\* ----------------------------------------------------------- Part I: claims

\* C1: a getter call trains at most once, and a second empty lookup ends the
\* call with the fatal ModelUnavailable error.
C1_RetryOnceThenModelUnavailable ==
    \A r \in Reqs :
        /\ trainCalls[r] <= 1
        /\ absences[r] >= 2 => pc[r] = "ModelUnavailable"

\* C2: however many requests observe that no model exists, at most one
\* training run is executed on their behalf.
C2_SingleFlightTraining == demandTrains <= 1

\* C3: the user matrix and the item matrix handed to the scorer come from the
\* same training generation.
C3_SameGenerationPair ==
    \A r \in Reqs : pc[r] = "sig_get" => uMat[r] = aMat[r]

\* C4: scores served from the per-user cache are never older than the newest
\* generation that was persisted when the call started.
C4_NoStaleCachedScores ==
    \A r \in Reqs :
        (pc[r] = "done" /\ served[r] # "none") =>
            /\ returned[r].u >= startGen[r]
            /\ returned[r].a >= startGen[r]

\* ---------------------------------------------------------- Part II: claims
LastStage == IF stages = << >> THEN "" ELSE stages[Len(stages)]
CategoryReturned == LastStage = "CategoryReRanker" /\ err = ""

RECURSIVE FilterAll(_, _)
\* the filters fs applied left to right, each to the output of the one before
FilterAll(fs, app_score) ==
    IF fs = << >> THEN app_score
    ELSE FilterAll(Tail(fs), CallFilter(Head(fs), app_score, EmptyCache))

RECURSIVE RerankAll(_, _)
\* the rerankers rs applied left to right, each to the output of the one before
RerankAll(rs, ranked) ==
    IF rs = << >> THEN ranked
    ELSE RerankAll(Tail(rs), CallReranker(Head(rs), ranked, EmptyCache, num_rec).out)

\* C5: get_recommendation runs the registered filters in registration order,
\* then the sort, then the registered rerankers in registration order, then
\* the truncation to n: the stages executed so far are always a prefix of that
\* sequence, and the list returned is the composition in that order.
C5_StagesInOrder ==
    /\ ppc = "filters" => stages = SubSeq(filters, 1, idx - 1)
    /\ ppc = "rerankers" =>
           stages = filters \o << "sort" >> \o SubSeq(rerankers, 1, idx - 1)
    /\ ppc = "error" =>
           stages = filters \o << "sort" >> \o SubSeq(rerankers, 1, idx)
    /\ ppc = "done" =>
           /\ stages = filters \o << "sort" >> \o rerankers \o << "truncate" >>
           /\ result = PySliceTo(RerankAll(rerankers,
                                     SortScores(FilterAll(filters, rawScores))),
                                 nArg)

\* C5 witness: a call with two filters and two rerankers whose order matters
\* returned a truncated list
C5_Witness ==
    /\ ppc = "done"
    /\ filters = << "LocaleFilter", "RepetitionFilter" >>
    /\ rerankers = << "RepetitionReRanker", "RegionReRanker" >>
    /\ nArg = 2 /\ Len(result) = 2
    /\ result # PySliceTo(RerankAll(<< "RegionReRanker", "RepetitionReRanker" >>,
                              SortScores(FilterAll(filters, rawScores))), nArg)

\* C6: the sort yields the keys 1..M in descending score order, and items
\* with equal score (negative infinity included) in ascending key order.
C6_SortDescendingStable ==
    LastStage = "sort" =>
        /\ Len(result) = Len(prev)
        /\ Range(result) = 1..Len(prev)
        /\ \A i, j \in 1..Len(result) :
               i < j => \/ prev[result[i]] > prev[result[j]]
                        \/ /\ prev[result[i]] = prev[result[j]]
                           /\ result[i] < result[j]

\* C6 witness: a vector with two suppressed items and a finite score above
\* them was sorted
C6_Witness ==
    /\ LastStage = "sort"
    /\ \E a, b, c \in 1..Len(prev) :
           /\ a < b /\ prev[a] = NegInf /\ prev[b] = NegInf /\ prev[c] > NegInf
           /\ IndexOf(result, c) < IndexOf(result, a)
           /\ IndexOf(result, a) < IndexOf(result, b)

\* C8: RepetitionFilter sets the score of every installed item to negative
\* infinity and changes nothing else, so the sort ranks every installed item
\* behind every item that is not installed and has a finite score.
C8_InstalledSuppressed ==
    /\ (ppc = "filters" /\ LastStage = "RepetitionFilter") =>
           /\ Len(result) = Len(prev)
           /\ \A a \in 1..Len(result) :
                  result[a] = IF a \in installed THEN NegInf ELSE prev[a]
    /\ (LastStage = "sort" /\ "RepetitionFilter" \in Range(stages)) =>
           \A a \in installed, b \in Apps \ installed :
               prev[b] > NegInf => IndexOf(result, b) < IndexOf(result, a)

\* C8 witness: scores [0.5, 0.9, 0.1] with item 2 installed sort to [1, 3, 2]
C8_Witness ==
    /\ LastStage = "sort"
    /\ rawScores = << 5, 9, 1 >> /\ installed = {2}
    /\ filters = << "RepetitionFilter" >>
    /\ prev = << 5, NegInf, 1 >>
    /\ result = << 1, 3, 2 >>

\* C7: after the sort and after every reranker that returned, the ranked list
\* is a permutation of the keys 1..M and as long as it was before the
\* reranker; the length assertion of CategoryReRanker never fails.
C7_RankedListIsPermutation ==
    /\ ppc = "rerankers" =>
           /\ Len(result) = numApps
           /\ Range(result) = Apps
           /\ Len(result) = Len(prev)
    /\ err # "AssertionError"

\* C7 witness: all three rerankers returned, CategoryReRanker having moved apps
C7_Witness ==
    /\ ppc = "rerankers" /\ idx = 4
    /\ Len(to_add) = 2
    /\ result # SortScores(rawScores)

\* the apps of category cat in the top part of ranked, best-ranked first
C9_Candidates(ranked, cat) ==
    SelectSeq(TopPart(ranked), LAMBDA aid : cat \in CategoriesOf(aid))

RECURSIVE C9_BestRankedPicks(_, _, _)
\* per slot, the best-ranked app of the slot's category not picked before
C9_BestRankedPicks(pf, ranked, acc) ==
    IF pf = << >> THEN acc
    ELSE LET free == SelectSeq(C9_Candidates(ranked, Head(pf)),
                               LAMBDA aid : aid \notin Range(acc))
         IN C9_BestRankedPicks(Tail(pf), ranked,
                IF free = << >> THEN acc ELSE Append(acc, Head(free)))

\* C9: for each selected category slot, CategoryReRanker picks the
\* highest-ranked app of that category, among those not yet picked, from the
\* top 33% of the list it was called with.
C9_PicksBestRankedOfCategory ==
    CategoryReturned => to_add = C9_BestRankedPicks(prefs, prev, << >>)

RECURSIVE C10_InSlotOrder(_, _)
\* the picked apps can be matched to the slots of pf, keeping both orders
C10_InSlotOrder(picked, pf) ==
    IF picked = << >> THEN TRUE
    ELSE IF pf = << >> THEN FALSE
    ELSE IF Head(pf) \in CategoriesOf(Head(picked))
         THEN C10_InSlotOrder(Tail(picked), Tail(pf))
         ELSE C10_InSlotOrder(picked, Tail(pf))

\* the picked apps stand at (1-based) positions last-k+1 .. last of result, in
\* slot order, and the other apps keep their relative order
C10_PickedAt(last) ==
    LET k == Len(to_add)
    IN /\ k <= num_rec
       /\ \A j \in 1..k : /\ last - k + j \in 1..Len(result)
                          /\ result[last - k + j] = to_add[j]
       /\ C10_InSlotOrder(to_add, prefs)
       /\ RemoveAll(result, to_add) = RemoveAll(prev, to_add)

\* C10 as stated: the k picked apps occupy the 0-based positions n-k .. n-1
\* of the output, in slot order, the rest keeping their order, and k <= n.
C10_PickedAtNumRec ==
    CategoryReturned => C10_PickedAt(num_rec)

\* C10 as amended: the k picked apps occupy the 0-based positions m-k .. m-1
\* with m = min(n, M), in slot order, the rest keeping their order, and
\* k <= n (the insertion index n-k is never negative).
C10_PickedAtNumRecOrTail ==
    CategoryReturned => C10_PickedAt(Min(num_rec, Len(prev)))

\* C10 witness: two apps picked for two different categories were inserted
\* in front of position n
C10_Witness ==
    /\ CategoryReturned
    /\ num_rec <= Len(prev)
    /\ Len(to_add) = 2
    /\ CategoriesOf(to_add[1]) \cap CategoriesOf(to_add[2]) = {}
    /\ result # prev

\* C11: after RepetitionReRanker the installed apps are the tail of the list,
\* in the order the installed-apps listing returns them, and the apps that are
\* not installed precede them in the relative order they had before.
C11_InstalledAtTail ==
    (LastStage = "RepetitionReRanker" /\ err = "") =>
        result = SelectSeq(prev, LAMBDA aid : aid \notin installed)
                     \o Ascending(installed)

\* C11 witness: two installed apps that were ranked apart, and not in listing
\* order, were moved to the tail
C11_Witness ==
    /\ LastStage = "RepetitionReRanker" /\ err = ""
    /\ \E a, b \in installed :
           /\ a < b
           /\ IndexOf(prev, b) + 1 < IndexOf(prev, a)
           /\ IndexOf(prev, a) < Len(prev)
           /\ result[Len(result) - 1] = a /\ result[Len(result)] = b

\* C12: after RegionReRanker the region-available apps keep the relative order
\* of the input ranking, and the region-unavailable apps follow all of them in
\* the relative order they had in the input ranking.
C12_UnavailableKeepRankOrder ==
    (LastStage = "RegionReRanker" /\ err = "") =>
        result = SelectSeq(prev, LAMBDA aid : aid \notin RegionUnavailable)
                     \o SelectSeq(prev, LAMBDA aid : aid \in RegionUnavailable)

\* C13: SimpleRegionFilter lowers by the penalty of 1000 the score of every
\* app that is available in none of the user's regions and leaves every other
\* score as it was; for a user without regions the vector is unchanged.
C13_PenaltyOnlyOnZeroMembership ==
    LastStage = "SimpleRegionFilter" =>
        /\ Len(result) = Len(prev)
        /\ \A a \in 1..Len(prev) :
               result[a] =
                   IF /\ userRegions # {}
                      /\ \A r \in userRegions : ItemListByRegion(r, a) = 0
                   THEN prev[a] - Penalty * ScoreScale
                   ELSE prev[a]

\* the call that ended last was an unregister call
C14_Unregistered == lastCall.op \in {"unregisterFilter", "unregisterReranker"}
\* what the last call's registry holds now
C14_Registry ==
    IF lastCall.op = "unregisterFilter" THEN filters ELSE rerankers
\* item is the same object as, or of the same class as, one of the arguments
C14_Matches(item) ==
    \E i \in 1..Len(lastCall.args) : ClassOf(lastCall.args[i]) = ClassOf(item)

\* C14: unregisterFilter / unregisterReranker raise no error and remove every
\* registered entry that is identical or equal (same class, equal parameters)
\* to an argument, leaving the other entries in place in their order.
C14_UnregisterByEquality ==
    C14_Unregistered =>
        /\ lastCall.err = ""
        /\ C14_Registry = SelectSeq(lastCall.before,
                                    LAMBDA x : ~C14_Matches(x))

\* C15: register calls append their arguments in argument order behind what
\* earlier calls registered; the filters / rerankers properties return the
\* registered sequence; changing the returned list changes neither registry,
\* and a later get_recommendation applies the registered sequences.
C15_CallOrderAndDefensiveCopy ==
    /\ lastCall.op = "registerFilter" =>
           filters = lastCall.before \o lastCall.args
    /\ lastCall.op = "registerReranker" =>
           rerankers = lastCall.before \o lastCall.args
    /\ lastCall.op = "filters" => held.items = filters
    /\ lastCall.op = "rerankers" => held.items = rerankers
    /\ lastCall.op \in {"append", "clear"} =>
           << filters, rerankers >> = lastCall.before
    /\ ppc = "done" =>
           stages = filters \o << "sort" >> \o rerankers \o << "truncate" >>

\* C15 witness: a list returned by a property was changed, and a later
\* get_recommendation applied the two registered filters and the reranker
C15_Witness ==
    /\ ppc = "done"
    /\ lastCall.op = "append"
    /\ held.items = << "LocaleFilter", "RepetitionFilter", "LocaleFilter" >>
    /\ filters = << "LocaleFilter", "RepetitionFilter" >>
    /\ rerankers = << "RegionReRanker", "RepetitionReRanker" >>
    /\ stages = << "LocaleFilter", "RepetitionFilter", "sort",
                   "RegionReRanker", "RepetitionReRanker", "truncate" >>

RECURSIVE C16_RerankAgain(_, _, _)
\* the rerankers rs applied left to right to ranked, starting from cache c
C16_RerankAgain(rs, ranked, c) ==
    IF rs = << >> THEN [err |-> "", out |-> ranked]
    ELSE LET o == CallReranker(Head(rs), ranked, c, num_rec)
         IN IF o.err # "" THEN [err |-> o.err, out |-> ranked]
            ELSE C16_RerankAgain(Tail(rs), o.out, o.cache)

\* C16: when RegionReRanker, CategoryReRanker and RepetitionReRanker, registered
\* in this order, have produced a list, applying the three of them again to
\* that list, with nothing changed in between, returns the same list.
C16_RerankersIdempotent ==
    (/\ ppc = "rerankers" /\ idx > Len(rsnap) /\ err = ""
     /\ rsnap = << "RegionReRanker", "CategoryReRanker", "RepetitionReRanker" >>)
        => C16_RerankAgain(rsnap, result, cache) = [err |-> "", out |-> result]

\* C17: every controller and base instance can be constructed; a call of
\* get_recommendation on a controller that does not override the matrix
\* getters ends in an error, and so does the call of a base Filter / ReRanker
\* as a pipeline stage: it never returns a value.
C17_AbstractFailsAtCall ==
    /\ (ctl # "SimpleController" /\ ppc # "idle") =>
           (ppc = "error" /\ err \in {"TypeError", "NotImplementedError"})
    /\ (LastStage # "" /\ ClassOf(LastStage) \in BaseClasses) => ppc = "error"

\* C18: CategoryReRanker completes and returns a list for every user category
\* profile and every ranked list that is a permutation of the keys, also when
\* a selected category has no app in the top part of the list and when the
\* user has no installed app.
C18_CategoryReRankerTotal ==
    LastStage = "CategoryReRanker" =>
        /\ err = ""
        /\ Range(prev) = Apps /\ Len(prev) = numApps
        /\ Len(result) = Len(prev)

\* C19: what CategoryReRanker returns for a user depends only on the user's
\* category profile and on the ranked list of the call: it is what the same
\* call returns when no other user's recommendation was computed before.
C19_IndependentOfEarlierCalls ==
    LastStage = "CategoryReRanker" =>
        LET alone == CategoryReRanker(prev, EmptyCache, num_rec)
        IN /\ err = alone.err
           /\ err = "" => result = alone.out

\* the stages run so far are the first ones of: the filters the call found
\* registered, the sort, the rerankers it found registered, the truncation
C20_StagesFollowSnapshot ==
    /\ ppc = "filters" => stages = SubSeq(fsnap, 1, idx - 1)
    /\ ppc = "rerankers" =>
           stages = fsnap \o << "sort" >> \o SubSeq(rsnap, 1, idx - 1)
    /\ ppc = "done" => stages = fsnap \o << "sort" >> \o rsnap \o << "truncate" >>

\* a phase starts on the sequence registered at that instant and keeps it
C20_SnapshotTaken ==
    /\ (ppc = "idle" /\ ppc' = "filters") => fsnap' = filters
    /\ (ppc = "filters" /\ ppc' = "rerankers") => rsnap' = rerankers
    /\ (ppc = "filters" /\ ppc' = "filters") => fsnap' = fsnap
    /\ (ppc = "rerankers" /\ ppc' = "rerankers") => rsnap' = rsnap
    /\ ppc \in {"rerankers", "done"} => fsnap' = fsnap
    /\ ppc = "done" => rsnap' = rsnap

\* C20: a get_recommendation call that runs while filters and rerankers are
\* registered and unregistered applies exactly the filters registered when its
\* filter phase starts and exactly the rerankers registered when its reranker
\* phase starts, each once and in order.
C20_ConsistentSnapshot ==
    [](C20_StagesFollowSnapshot) /\ [][C20_SnapshotTaken]_vars

\* C20 witness: a call returned after running a filter that was unregistered
\* meanwhile, and without running a filter and a reranker registered meanwhile
C20_Witness ==
    /\ ppc = "done"
    /\ fsnap = << "RepetitionFilter" >>
    /\ filters = << "LocaleFilter" >>
    /\ rsnap = << "RegionReRanker" >>
    /\ rerankers = << "RegionReRanker", "RepetitionReRanker" >>
    /\ stages = << "RepetitionFilter", "sort", "RegionReRanker", "truncate" >>

====
